---- MODULE Spec2Model ----
(***************************************************************************)
(* Model of ai_code_review.py: GitDiffReviewer.get_diff, _decode_blob,     *)
(* _is_binary_file and the part of main that calls them.                   *)
(*                                                                         *)
(* Text (a Python str) is a sequence of code points, raw blob data (bytes) *)
(* a sequence of byte values.  An optional value is None (the empty        *)
(* sequence) or Some(v) (the one-element sequence holding v).              *)
(***************************************************************************)
EXTENDS Integers, Sequences, FiniteSets, TLC

VARIABLES
    revisions_ok,    \* whether both branch names resolve in the repository
    merge_bases,     \* what repo.merge_base(base, feature) answers (line 108)
    diff_index,      \* what fork_point.diff(feature_head, ...) enumerates (line 117)
    output_file,     \* the --output-diff argument (None when not given)
    pc,              \* position of main / get_diff
    i,               \* index of the next diff_item of the loop at line 128
    diff_content,    \* local diff_content of get_diff (line 125)
    processed_files, \* local processed_files of get_diff (line 126)
    result,          \* the value get_diff returned to main (line 284)
    file,            \* None while the destination was never opened, else Some(text written)
    reviewed,        \* the payload handed to the text-generation call, or None
    exit_code,       \* process exit status (None while running)
    log,             \* the set of warnings main / get_diff logged
    blocks,          \* history: one entry per text appended to diff_content
    reads,           \* history: <<item, side>> of every data_stream.read() call
    compared,        \* history: items for which difflib.unified_diff was run
    errors           \* history: items whose processing raised inside the loop

vars == <<revisions_ok, merge_bases, diff_index, output_file, pc, i, diff_content,
          processed_files, result, file, reviewed, exit_code, log, blocks,
          reads, compared, errors>>

None == <<>>
Some(v) == <<v>>

---------------------------------------------------------------------------
(* Bounds of the model. *)

\* Longest diff_index enumerated under Spec.
MaxItems == 2
\* Longest raw blob (in bytes) enumerated under SpecBytes.
MaxBytes == 4

---------------------------------------------------------------------------
(* Text helpers (Python str operations the code uses). *)

RECURSIVE Concat(_)
\* "".join(parts)
Concat(parts) ==
    IF parts = <<>> THEN <<>> ELSE Head(parts) \o Concat(Tail(parts))

\* str.lower() on the ASCII range
LowerChar(c) == IF c >= 65 /\ c <= 90 THEN c + 32 ELSE c
Lower(s) == [k \in 1..Len(s) |-> LowerChar(s[k])]

\* str.endswith(suffix)
EndsWith(s, suffix) ==
    /\ Len(suffix) <= Len(s)
    /\ SubSeq(s, Len(s) - Len(suffix) + 1, Len(s)) = suffix

\* Code points str.strip() removes (ASCII whitespace).
Whitespace == {9, 10, 11, 12, 13, 32}

\* s.strip() is non-empty (the truth value of diff_content.strip())
StripNonEmpty(s) == \E k \in 1..Len(s) : s[k] \notin Whitespace

\* Line boundaries of str.splitlines (no "\r" occurs in the modelled alphabet,
\* so the "\r\n" pairing never applies).
LineBreaks == {10, 11, 12, 13, 28, 29, 30, 133, 8232, 8233}

RECURSIVE SplitLinesFrom(_, _, _)
SplitLinesFrom(s, start, k) ==
    IF k > Len(s)
      THEN IF start > Len(s) THEN <<>> ELSE <<SubSeq(s, start, Len(s))>>
      ELSE IF s[k] \in LineBreaks
             THEN <<SubSeq(s, start, k)>> \o SplitLinesFrom(s, k + 1, k + 1)
             ELSE SplitLinesFrom(s, start, k + 1)

\* s.splitlines(keepends=True)
SplitLines(s) == SplitLinesFrom(s, 1, 1)

\* str(n) for the small line numbers of a hunk header
Digits(n) == IF n < 10 THEN <<48 + n>> ELSE <<48 + (n \div 10), 48 + (n % 10)>>

---------------------------------------------------------------------------
(* Literal texts of the source. *)

NL == <<10>>
\* "新文件: "
HdrNew == <<26032, 25991, 20214, 58, 32>>
\* "删除的文件: "
HdrDeleted == <<21024, 38500, 30340, 25991, 20214, 58, 32>>
\* "修改文件: "
HdrModified == <<20462, 25913, 25991, 20214, 58, 32>>
\* "[二进制文件: "
BinaryOpen == <<91, 20108, 36827, 21046, 25991, 20214, 58, 32>>
\* "]"
BinaryClose == <<93>>
\* " -> "
Arrow == <<32, 45, 62, 32>>

\* {'.jpg', '.jpeg', '.png', '.gif', '.pdf', '.zip', '.exe', '.dll', '.so',
\*  '.dylib', '.bin'}
binary_extensions ==
    { <<46, 106, 112, 103>>, <<46, 106, 112, 101, 103>>, <<46, 112, 110, 103>>,
      <<46, 103, 105, 102>>, <<46, 112, 100, 102>>, <<46, 122, 105, 112>>,
      <<46, 101, 120, 101>>, <<46, 100, 108, 108>>, <<46, 115, 111>>,
      <<46, 100, 121, 108, 105, 98>>, <<46, 98, 105, 110>> }

---------------------------------------------------------------------------
(* The codecs bytes.decode is called with.  A decoder answers               *)
(* [ok |-> FALSE] where Python raises UnicodeDecodeError.                   *)

Failed == [ok |-> FALSE, text |-> <<>>]

Decoded(cp, rest) ==
    IF rest.ok THEN [ok |-> TRUE, text |-> <<cp>> \o rest.text] ELSE Failed

RECURSIVE Utf8From(_, _)
\* Strict UTF-8: one-byte forms 00..7F and two-byte forms C2..DF 80..BF.
\* (The lead bytes E0..F4 of the longer forms are not in the byte alphabet;
\* every other byte is invalid wherever it stands.)
Utf8From(d, k) ==
    IF k > Len(d) THEN [ok |-> TRUE, text |-> <<>>]
    ELSE IF d[k] < 128 THEN Decoded(d[k], Utf8From(d, k + 1))
    ELSE IF /\ d[k] >= 194 /\ d[k] <= 223
            /\ k + 1 <= Len(d)
            /\ d[k + 1] >= 128 /\ d[k + 1] <= 191
      THEN Decoded((d[k] - 192) * 64 + (d[k + 1] - 128), Utf8From(d, k + 2))
    ELSE Failed

\* The GBK code table restricted to the lead/trail bytes of the byte
\* alphabet (0 where the codec has no character).
GbkCodePoint(lead, trail) ==
    CASE lead = 195 /\ trail = 65  -> 32897
      [] lead = 195 /\ trail = 195 -> 22969
      [] lead = 195 /\ trail = 169 -> 33541
      [] lead = 169 /\ trail = 65  -> 12322
      [] lead = 169 /\ trail = 195 -> 9503
      [] lead = 169 /\ trail = 169 -> 9477
      [] OTHER -> 0

RECURSIVE GbkFrom(_, _)
\* Strict GBK: one-byte forms 00..7F, two-byte forms lead 81..FE and trail
\* 40..FE except 7F.
GbkFrom(d, k) ==
    IF k > Len(d) THEN [ok |-> TRUE, text |-> <<>>]
    ELSE IF d[k] < 128 THEN Decoded(d[k], GbkFrom(d, k + 1))
    ELSE IF /\ d[k] >= 129 /\ d[k] <= 254
            /\ k + 1 <= Len(d)
            /\ d[k + 1] >= 64 /\ d[k + 1] <= 254 /\ d[k + 1] # 127
            /\ GbkCodePoint(d[k], d[k + 1]) # 0
      THEN Decoded(GbkCodePoint(d[k], d[k + 1]), GbkFrom(d, k + 2))
    ELSE Failed

\* latin1 maps every byte to the code point of the same value; with
\* errors='replace' it has nothing to replace.
Latin1(d) == [ok |-> TRUE, text |-> d]

\* raw_data.decode(encoding)
Decode(d, encoding) ==
    CASE encoding = "utf-8"  -> Utf8From(d, 1)
      [] encoding = "gbk"    -> GbkFrom(d, 1)
      [] encoding = "latin1" -> Latin1(d)

---------------------------------------------------------------------------
(* _is_binary_file and _decode_blob. *)

IsBinaryFileCaseSensitive(blob) ==
    IF blob = None \/ blob[1].path = <<>> THEN FALSE
    ELSE \E ext \in binary_extensions : EndsWith(blob[1].path, ext)

\* _is_binary_file(blob)
IsBinaryFile(blob) ==
    IF blob = None \/ blob[1].path = <<>> THEN FALSE
    ELSE \E ext \in binary_extensions : EndsWith(Lower(blob[1].path), ext)

\* f"[二进制文件: {blob.path}]"
BinaryNotice(path) == BinaryOpen \o path \o BinaryClose

encodingsGbkFirst == <<"gbk", "utf-8">>

\* encodings = ['utf-8', 'gbk']
encodings == <<"utf-8", "gbk">>

RECURSIVE TryEncodings(_, _)
\* Line 201 inside the loop: return the decoded text, or go on with the
\* remaining encodings on UnicodeDecodeError.
ReturnOrContinue(r, d, rest) == IF r.ok THEN r ELSE TryEncodings(d, rest)

\* The loop of _decode_blob over the candidate encodings (lines 199-203),
\* then the latin1 fallback (line 205).
TryEncodings(d, encs) ==
    IF encs = <<>> THEN Decode(d, "latin1")
    ELSE ReturnOrContinue(Decode(d, Head(encs)), d, Tail(encs))

\* What _decode_blob answers once the data stream was read.
DecodedValue(r) == [raised |-> ~r.ok, value |-> Some(r.text), read |-> TRUE]

\* _decode_blob(blob, encodings): the value returned (None or Some(text)),
\* whether it raised, and whether blob.data_stream.read() was called.
\* A blob is None or Some([path, data, fault]); fault says that reading its
\* data stream raises.
DecodeBlob(blob, encs) ==
    IF blob = None
      THEN [raised |-> FALSE, value |-> None, read |-> FALSE]
    ELSE IF IsBinaryFile(blob)
      THEN [raised |-> FALSE, value |-> Some(BinaryNotice(blob[1].path)),
            read |-> FALSE]
    ELSE IF blob[1].fault
      THEN [raised |-> TRUE, value |-> None, read |-> TRUE]
    ELSE DecodedValue(TryEncodings(blob[1].data, encs))

---------------------------------------------------------------------------
(* difflib.unified_diff(a, b, fromfile, tofile, lineterm='') with its      *)
(* default n = 3 lines of context.  a and b are sequences of lines;        *)
(* offsets are Python's (0-based, half-open).                              *)

\* Lines of context around a change (the default n of unified_diff).
ContextLines == 3

\* All blocks a[i:i+k] = b[j:j+k], k > 0, inside a[alo:ahi] and b[blo:bhi].
Matches(a, b, alo, ahi, blo, bhi) ==
    { m \in (alo..(ahi - 1)) \X (blo..(bhi - 1)) \X (1..(ahi - alo)) :
        /\ m[1] + m[3] <= ahi
        /\ m[2] + m[3] <= bhi
        /\ \A t \in 1..m[3] : a[m[1] + t] = b[m[2] + t] }

\* The longest block of M; of those the one starting earliest in a; of
\* those the one starting earliest in b.
LongestOf(M, alo, blo) ==
    IF M = {} THEN <<alo, blo, 0>>
    ELSE CHOOSE m \in M : \A n \in M :
           \/ m[3] > n[3]
           \/ m[3] = n[3] /\ m[1] < n[1]
           \/ m[3] = n[3] /\ m[1] = n[1] /\ m[2] <= n[2]

\* SequenceMatcher.find_longest_match.  (No line is junk: autojunk needs
\* 200 lines.)
FindLongestMatch(a, b, alo, ahi, blo, bhi) ==
    LongestOf(Matches(a, b, alo, ahi, blo, bhi), alo, blo)

RECURSIVE MatchingBlocks(_, _, _, _, _, _)
\* The blocks left of the match m, m itself, and the blocks right of it.
AroundMatch(a, b, alo, ahi, blo, bhi, m) ==
    IF m[3] = 0 THEN <<>>
    ELSE (IF alo < m[1] /\ blo < m[2]
            THEN MatchingBlocks(a, b, alo, m[1], blo, m[2]) ELSE <<>>)
         \o <<m>>
         \o (IF m[1] + m[3] < ahi /\ m[2] + m[3] < bhi
               THEN MatchingBlocks(a, b, m[1] + m[3], ahi, m[2] + m[3], bhi)
               ELSE <<>>)

\* SequenceMatcher.get_matching_blocks, without its closing sentinel: the
\* longest match, then the same left and right of it, in order.
MatchingBlocks(a, b, alo, ahi, blo, bhi) ==
    AroundMatch(a, b, alo, ahi, blo, bhi,
                FindLongestMatch(a, b, alo, ahi, blo, bhi))

Opcode(tag, i1, i2, j1, j2) ==
    [tag |-> tag, i1 |-> i1, i2 |-> i2, j1 |-> j1, j2 |-> j2]

RECURSIVE OpcodesFrom(_, _, _)
\* SequenceMatcher.get_opcodes: what turns a[i:] into b[j:] given the
\* remaining matching blocks.
OpcodesFrom(blks, ai, bj) ==
    IF blks = <<>> THEN <<>>
    ELSE LET m == Head(blks)
             tag == IF ai < m[1] /\ bj < m[2] THEN "replace"
                    ELSE IF ai < m[1] THEN "delete"
                    ELSE IF bj < m[2] THEN "insert"
                    ELSE ""
         IN  (IF tag # "" THEN <<Opcode(tag, ai, m[1], bj, m[2])>> ELSE <<>>)
             \o (IF m[3] > 0
                   THEN <<Opcode("equal", m[1], m[1] + m[3], m[2], m[2] + m[3])>>
                   ELSE <<>>)
             \o OpcodesFrom(Tail(blks), m[1] + m[3], m[2] + m[3])

GetOpcodes(a, b) ==
    OpcodesFrom(MatchingBlocks(a, b, 0, Len(a), 0, Len(b))
                  \o << <<Len(a), Len(b), 0>> >>, 0, 0)

Max(x, y) == IF x >= y THEN x ELSE y
Min(x, y) == IF x <= y THEN x ELSE y

\* get_grouped_opcodes: codes = self.get_opcodes() or [("equal", 0, 1, 0, 1)]
CodesOrDefault(ops) ==
    IF ops = <<>> THEN <<Opcode("equal", 0, 1, 0, 1)>> ELSE ops

\* get_grouped_opcodes: a leading run of equal lines is cut to its last n.
TrimFirst(codes) ==
    IF codes[1].tag = "equal"
      THEN [codes EXCEPT ![1] =
              Opcode("equal", Max(@.i1, @.i2 - ContextLines), @.i2,
                     Max(@.j1, @.j2 - ContextLines), @.j2)]
      ELSE codes

\* get_grouped_opcodes: a trailing run of equal lines is cut to its first n.
TrimLast(codes) ==
    IF codes[Len(codes)].tag = "equal"
      THEN [codes EXCEPT ![Len(codes)] =
              Opcode("equal", @.i1, Min(@.i2, @.i1 + ContextLines),
                     @.j1, Min(@.j2, @.j1 + ContextLines))]
      ELSE codes

\* get_grouped_opcodes: a group of nothing but equal lines is not yielded.
GroupsOf(codes) ==
    IF Len(codes) = 1 /\ codes[1].tag = "equal" THEN <<>> ELSE <<codes>>

\* SequenceMatcher.get_grouped_opcodes(n).  (A second group starts only
\* after more than 2n equal lines between two changes; sequences that long
\* are outside the bounds, so there is at most one group.)
GroupedOpcodes(a, b) ==
    GroupsOf(TrimLast(TrimFirst(CodesOrDefault(GetOpcodes(a, b)))))

\* difflib._format_range_unified(start, stop)
FormatRangeUnified(start, stop) ==
    LET length == stop - start
    IN  IF length = 1 THEN Digits(start + 1)
        ELSE Digits(IF length = 0 THEN start ELSE start + 1)
             \o <<44>> \o Digits(length)

DiffLine(kind, text) == [kind |-> kind, text |-> text]

\* One output line per line of s[lo:hi], each behind the prefix.
Prefixed(kind, prefix, s, lo, hi) ==
    [k \in 1..(hi - lo) |-> DiffLine(kind, <<prefix>> \o s[lo + k])]

RECURSIVE HunkLines(_, _, _)
\* The body of a hunk: ' ' lines for equal, '-' for the a side and '+' for
\* the b side of replace / delete / insert.
HunkLines(a, b, group) ==
    IF group = <<>> THEN <<>>
    ELSE LET op == Head(group)
         IN  (IF op.tag = "equal"
                THEN Prefixed("context", 32, a, op.i1, op.i2)
                ELSE (IF op.tag \in {"replace", "delete"}
                        THEN Prefixed("delete", 45, a, op.i1, op.i2) ELSE <<>>)
                     \o (IF op.tag \in {"replace", "insert"}
                           THEN Prefixed("insert", 43, b, op.j1, op.j2) ELSE <<>>))
             \o HunkLines(a, b, Tail(group))

\* The lines unified_diff yields for the groups: nothing without a group;
\* else '--- fromfile', '+++ tofile', '@@ -range +range @@' and the
\* hunk's lines.
DiffOfGroups(a, b, groups, fromfile, tofile) ==
    IF groups = <<>> THEN <<>>
    ELSE << DiffLine("fromfile", <<45, 45, 45, 32>> \o fromfile),
            DiffLine("tofile", <<43, 43, 43, 32>> \o tofile),
            DiffLine("hunk",
                     <<64, 64, 32, 45>>
                     \o FormatRangeUnified(groups[1][1].i1,
                                           groups[1][Len(groups[1])].i2)
                     \o <<32, 43>>
                     \o FormatRangeUnified(groups[1][1].j1,
                                           groups[1][Len(groups[1])].j2)
                     \o <<32, 64, 64>>) >>
         \o HunkLines(a, b, groups[1])

\* difflib.unified_diff(a, b, fromfile, tofile, lineterm='')
UnifiedDiff(a, b, fromfile, tofile) ==
    DiffOfGroups(a, b, GroupedOpcodes(a, b), fromfile, tofile)

\* "".join(diff_lines)
JoinLines(lines) == Concat([k \in 1..Len(lines) |-> lines[k].text])

---------------------------------------------------------------------------
(* One iteration of the loop of get_diff (lines 128-175).                  *)
(*                                                                         *)
(* A diff_item is [a_path, b_path, renamed_file, new_file, deleted_file,   *)
(* a_blob, b_blob]; an absent path is the empty text (both are false in    *)
(* the tests of lines 133 and 136).                                        *)

\* Lines 130-133: the effective path of a diff_item.
FilePath(item) ==
    IF item.renamed_file THEN item.a_path \o Arrow \o item.b_path
    ELSE IF item.b_path # <<>> THEN item.b_path
    ELSE item.a_path

NeverProcessed(file_path, processed) == FALSE

\* Line 141: file_path in processed_files
AlreadyProcessed(file_path, processed) == file_path \in processed

MarkProcessedIfEmitted(processed, file_path, emitted) ==
    IF emitted THEN processed \cup {file_path} ELSE processed

\* Line 143: processed_files.add(file_path).  It runs before the item is
\* rendered, so whether a block is emitted makes no difference.
MarkProcessed(processed, file_path, emitted) == processed \cup {file_path}

Block(kind, text, lines) == [kind |-> kind, text |-> text, lines |-> lines]

\* The block of a modification given the lines of its diff (lines 170-171).
ModifiedBlock(file_path, lines) ==
    Block("modified",
          HdrModified \o file_path \o NL \o JoinLines(lines) \o NL \o NL, lines)

AddedDiffBlock(file_path, lines) ==
    Block("new", HdrNew \o file_path \o NL \o JoinLines(lines) \o NL \o NL,
          lines)

RenderAddedAsDiff(file_path, content) ==
    AddedDiffBlock(file_path,
                   UnifiedDiff(<<>>, SplitLines(content),
                               <<97, 47>> \o file_path, <<98, 47>> \o file_path))

\* Line 150: f"新文件: {file_path}\n{content}\n\n"
RenderAdded(file_path, content) ==
    Block("new", HdrNew \o file_path \o NL \o content \o NL \o NL, <<>>)

\* Line 153: f"删除的文件: {file_path}\n\n"
RenderDeleted(file_path) ==
    Block("deleted", HdrDeleted \o file_path \o NL \o NL, <<>>)

\* Lines 163-171: the header, then the joined unified diff of the two
\* decoded sides and a blank line.
RenderModified(file_path, old_content, new_content) ==
    ModifiedBlock(file_path,
                  UnifiedDiff(SplitLines(old_content), SplitLines(new_content),
                              <<97, 47>> \o file_path, <<98, 47>> \o file_path))

\* What one iteration did: why the item was skipped ("" when it was not),
\* whether its path was marked, whether an exception reached the handler of
\* line 173, the block appended (None or Some), the sides whose data stream
\* was read, and whether unified_diff was run.
Outcome(skip, mark, raised, block, sides, cmp) ==
    [skip |-> skip, mark |-> mark, raised |-> raised, block |-> block,
     reads |-> sides, compared |-> cmp]

ReadSide(c, side) == IF c.read THEN {side} ELSE {}

\* Lines 146-150, c being the decoded b_blob.
AddedOutcome(file_path, c) ==
    IF c.raised THEN Outcome("", TRUE, TRUE, None, ReadSide(c, "b"), FALSE)
    ELSE IF c.value # None
      THEN Outcome("", TRUE, FALSE, Some(RenderAdded(file_path, c.value[1])),
                   ReadSide(c, "b"), FALSE)
    ELSE Outcome("", TRUE, FALSE, None, ReadSide(c, "b"), FALSE)

\* Lines 155-171, old and new being the decoded a_blob and b_blob; b_blob
\* is decoded only if decoding a_blob did not raise.
ModifiedOutcome(file_path, old, new) ==
    IF old.raised
      THEN Outcome("", TRUE, TRUE, None, ReadSide(old, "a"), FALSE)
    ELSE IF new.raised
      THEN Outcome("", TRUE, TRUE, None,
                   ReadSide(old, "a") \cup ReadSide(new, "b"), FALSE)
    ELSE IF old.value # None /\ new.value # None
      THEN Outcome("", TRUE, FALSE,
                   Some(RenderModified(file_path, old.value[1], new.value[1])),
                   ReadSide(old, "a") \cup ReadSide(new, "b"), TRUE)
    ELSE Outcome("", TRUE, FALSE, None,
                 ReadSide(old, "a") \cup ReadSide(new, "b"), FALSE)

\* Lines 134-175 for one diff_item.
ItemOutcome(item, processed) ==
    IF FilePath(item) = <<>>
      THEN Outcome("no_path", FALSE, FALSE, None, {}, FALSE)
    ELSE IF AlreadyProcessed(FilePath(item), processed)
      THEN Outcome("duplicate", FALSE, FALSE, None, {}, FALSE)
    ELSE IF item.new_file
      THEN AddedOutcome(FilePath(item), DecodeBlob(item.b_blob, encodings))
    ELSE IF item.deleted_file
      THEN Outcome("", TRUE, FALSE, Some(RenderDeleted(FilePath(item))), {},
                   FALSE)
    ELSE ModifiedOutcome(FilePath(item), DecodeBlob(item.a_blob, encodings),
                         DecodeBlob(item.b_blob, encodings))

---------------------------------------------------------------------------
(* get_diff and main as a state machine. *)

NoCommonAncestorIgnored(bases) == FALSE

\* Line 109: not merge_bases
NoCommonAncestor(bases) == bases = <<>>

OnItemErrorRaise == "raised"

\* Lines 173-175: the handler logs and continues with the next diff_item.
OnItemError == "loop"

ShouldWriteWheneverAsked(out, content) == out # None

\* Line 178: output_file and diff_content.strip()
ShouldWrite(out, content) == out # None /\ StripNonEmpty(content)

\* Line 183: diff_content if diff_content.strip() else None
ReturnValue(content) == IF StripNonEmpty(content) THEN Some(content) ELSE None

\* Line 287: args.output_diff and not diff_content
NothingToPersist(out, content) == out # None /\ content = None

\* main calls get_diff (line 284); lines 106-126 of get_diff.  A branch
\* name that does not resolve makes merge_base raise: get_diff logs and
\* re-raises (lines 185-187) and main exits with status 1 (lines 293-295).
GetDiffBegin ==
    /\ pc = "main"
    /\ IF ~revisions_ok
         THEN /\ log' = log \cup {"get_diff_error", "failed"}
              /\ result' = result
              /\ exit_code' = Some(1)
              /\ pc' = "failed"
         ELSE IF NoCommonAncestor(merge_bases)
           THEN /\ log' = log \cup {"no_common_ancestor"}
                /\ result' = None
                /\ exit_code' = exit_code
                /\ pc' = "returned"
           ELSE /\ log' = log
                /\ result' = result
                /\ exit_code' = exit_code
                /\ pc' = "loop"
    /\ i' = 1
    /\ diff_content' = <<>>
    /\ processed_files' = {}
    /\ UNCHANGED <<revisions_ok, merge_bases, diff_index, output_file, file,
                   reviewed, blocks, reads, compared, errors>>

\* The effect of one iteration whose outcome is out, on the locals of
\* get_diff and on the history.
ApplyOutcome(file_path, out) ==
    /\ processed_files' =
          IF out.mark
            THEN MarkProcessed(processed_files, file_path, out.block # None)
            ELSE processed_files
    /\ diff_content' =
          IF out.block # None THEN diff_content \o out.block[1].text
          ELSE diff_content
    /\ blocks' =
          IF out.block # None
            THEN Append(blocks, [item |-> i, path |-> file_path,
                                 kind |-> out.block[1].kind,
                                 text |-> out.block[1].text,
                                 lines |-> out.block[1].lines])
            ELSE blocks
    /\ reads' = reads \cup {<<i, side>> : side \in out.reads}
    /\ compared' = IF out.compared THEN compared \cup {i} ELSE compared
    /\ errors' = IF out.raised THEN errors \cup {i} ELSE errors
    /\ log' = IF out.skip = "no_path" THEN log \cup {"no_path"}
              ELSE IF out.raised THEN log \cup {"item_error"}
              ELSE log
    /\ pc' = IF out.raised THEN OnItemError ELSE "loop"

\* One iteration of the loop at line 128, on diff_index[i].
ProcessItem ==
    /\ pc = "loop"
    /\ i <= Len(diff_index)
    /\ ApplyOutcome(FilePath(diff_index[i]),
                    ItemOutcome(diff_index[i], processed_files))
    /\ i' = i + 1
    /\ UNCHANGED <<revisions_ok, merge_bases, diff_index, output_file, result,
                   file, reviewed, exit_code>>

\* Lines 177-183: the loop is over; write the file if asked and return.
GetDiffEnd ==
    /\ pc = "loop"
    /\ i > Len(diff_index)
    /\ file' = IF ShouldWrite(output_file, diff_content)
                 THEN Some(diff_content) ELSE file
    /\ log' = IF ShouldWrite(output_file, diff_content)
                THEN log \cup {"saved"} ELSE log
    /\ result' = ReturnValue(diff_content)
    /\ pc' = "returned"
    /\ UNCHANGED <<revisions_ok, merge_bases, diff_index, output_file, i,
                   diff_content, processed_files, reviewed, exit_code, blocks,
                   reads, compared, errors>>

\* Lines 286-295 of main, with review_code (lines 219-259): the request to
\* the text-generation service either succeeds or raises, and main then
\* exits with status 1.
MainAfterDiff ==
    /\ pc = "returned"
    /\ IF NothingToPersist(output_file, result)
         THEN /\ log' = log \cup {"no_output_file"}
              /\ reviewed' = reviewed
              /\ exit_code' = Some(0)
         ELSE IF result = None
           THEN /\ log' = log \cup {"no_diff_found"}
                /\ reviewed' = reviewed
                /\ exit_code' = Some(0)
           ELSE \E ok \in BOOLEAN :
                  /\ log' = log
                  /\ reviewed' = result
                  /\ exit_code' = Some(IF ok THEN 0 ELSE 1)
    /\ pc' = "done"
    /\ UNCHANGED <<revisions_ok, merge_bases, diff_index, output_file, i,
                   diff_content, processed_files, result, file, blocks, reads,
                   compared, errors>>

Next == GetDiffBegin \/ ProcessItem \/ GetDiffEnd \/ MainAfterDiff

---------------------------------------------------------------------------
(* Inputs. *)

RECURSIVE SeqsUpTo(_, _)
\* All sequences over S of length at most n.
SeqsUpTo(S, n) ==
    IF n = 0 THEN {<<>>}
    ELSE LET shorter == SeqsUpTo(S, n - 1)
         IN  shorter \cup {Append(q, x) : q \in shorter, x \in S}

\* "a.py"
PathPy == <<97, 46, 112, 121>>
\* "b.PNG"
PathPng == <<98, 46, 80, 78, 71>>
Paths == {PathPy, PathPng}

\* "x\n" and "x \n"
TextPlain == <<120, 10>>
TextTrailingSpace == <<120, 32, 10>>
SampleData == {TextPlain, TextTrailingSpace}

Blob(path, data) == Some([path |-> path, data |-> data, fault |-> FALSE])
FaultyBlob(path) == Some([path |-> path, data |-> <<>>, fault |-> TRUE])

Item(a_path, b_path, kind, a_blob, b_blob) ==
    [a_path |-> a_path, b_path |-> b_path,
     renamed_file |-> kind = "renamed", new_file |-> kind = "new",
     deleted_file |-> kind = "deleted", a_blob |-> a_blob, b_blob |-> b_blob]

\* The two sides of a changed path: both readable, one unreadable, or no
\* blob on either side (a rename without content change carries none).
BlobPairs(p, q) ==
    {<<Blob(p, x), Blob(q, y)>> : x \in SampleData, y \in SampleData}
    \cup {<<FaultyBlob(p), Blob(q, TextPlain)>>,
          <<Blob(p, TextPlain), FaultyBlob(q)>>,
          <<None, None>>}

AddedItems ==
    UNION { {Item(p, p, "new", None, b) :
               b \in {None, FaultyBlob(p)} \cup {Blob(p, x) : x \in SampleData}} :
            p \in Paths }

\* Deleted items carry no new path here, so line 133 falls back on a_path.
DeletedItems ==
    {Item(p, <<>>, "deleted", Blob(p, TextPlain), None) : p \in Paths}

ModifiedItems ==
    UNION { {Item(p, p, "modified", bp[1], bp[2]) : bp \in BlobPairs(p, p)} :
            p \in Paths }

RenamedItems ==
    UNION { {Item(pq[1], pq[2], "renamed", bp[1], bp[2]) :
               bp \in BlobPairs(pq[1], pq[2])} :
            pq \in {pq \in Paths \X Paths : pq[1] # pq[2]} }

\* An item without any path (skipped at line 136).
NoPathItem == Item(<<>>, <<>>, "modified", None, None)

Items ==
    {NoPathItem} \cup AddedItems \cup DeletedItems \cup ModifiedItems
    \cup RenamedItems

Bytes == {10, 65, 169, 195, 255}

\* Added files of every content up to MaxBytes bytes.
ByteItems ==
    {Item(p, p, "new", None, Blob(p, d)) :
       p \in Paths, d \in SeqsUpTo(Bytes, MaxBytes)}

\* The state when main starts.  What the repository answers is fixed from
\* the start; without resolvable branch names there is neither a merge
\* base nor a diff to speak of.
InitWith(indexes) ==
    /\ revisions_ok \in BOOLEAN
    /\ merge_bases \in IF revisions_ok THEN {<<>>, <<"fork">>} ELSE {<<>>}
    /\ diff_index \in IF revisions_ok THEN indexes ELSE {<<>>}
    /\ output_file \in {None, Some("out.diff")}
    /\ pc = "main"
    /\ i = 1
    /\ diff_content = <<>>
    /\ processed_files = {}
    /\ result = None
    /\ file = None
    /\ reviewed = None
    /\ exit_code = None
    /\ log = {}
    /\ blocks = <<>>
    /\ reads = {}
    /\ compared = {}
    /\ errors = {}

Init == InitWith(SeqsUpTo(Items, MaxItems))

Spec == Init /\ [][Next]_vars

InitBytes == InitWith({<<it>> : it \in ByteItems})

SpecBytes == InitBytes /\ [][Next]_vars

---------------------------------------------------------------------------
(* Vocabulary of the properties. *)

\* The diff_items the loop has been through.
Visited == 1..(i - 1)

PathOf(k) == FilePath(diff_index[k])

\* k is the first diff_item with its effective path.
IsFirstOccurrence(k) == \A j \in 1..(k - 1) : PathOf(j) # PathOf(k)

BlocksOf(k) == {m \in 1..Len(blocks) : blocks[m].item = k}

BlockTexts == [m \in 1..Len(blocks) |-> blocks[m].text]

HeaderOf(kind) ==
    CASE kind = "new" -> HdrNew
      [] kind = "deleted" -> HdrDeleted
      [] kind = "modified" -> HdrModified

StartsWith(s, prefix) ==
    Len(prefix) <= Len(s) /\ SubSeq(s, 1, Len(prefix)) = prefix

\* The path ends, whatever its case, in a denylisted extension.
HasDenylistedExtension(path) ==
    \E ext \in binary_extensions : EndsWith(Lower(path), ext)

DenylistedBlob(blob) == blob # None /\ HasDenylistedExtension(blob[1].path)

HasDiffMarkers(lines) ==
    \E n \in 1..Len(lines) : lines[n].kind \in {"insert", "delete"}

GetDiffReturned == pc \in {"returned", "done"}

---------------------------------------------------------------------------
(* C1: the document is the concatenation of the emitted blocks, each        *)
(* headed by its effective path; no effective path heads two blocks, and   *)
(* the block of a path comes from the first diff_item with that path.      *)
C1_FirstOccurrenceWins ==
    /\ diff_content = Concat(BlockTexts)
    /\ \A m \in 1..Len(blocks) :
         /\ blocks[m].path = PathOf(blocks[m].item)
         /\ StartsWith(blocks[m].text,
                       HeaderOf(blocks[m].kind) \o blocks[m].path \o NL)
         /\ IsFirstOccurrence(blocks[m].item)
         /\ \A n \in 1..Len(blocks) : blocks[n].path = blocks[m].path => n = m

\* A path enumerated twice whose first diff_item was rendered.
C1_Witness ==
    /\ GetDiffReturned
    /\ \E j \in Visited, k \in Visited :
         /\ j < k
         /\ PathOf(j) = PathOf(k)
         /\ BlocksOf(j) # {}
         /\ diff_index[k].deleted_file

(* C2: an iteration that raises leaves diff_content and the blocks as they *)
(* were and goes on with the next diff_item; get_diff never raises because *)
(* of it and returns only after the last diff_item.                        *)
C2_ItemErrorSkipsOnlyThatItem ==
    /\ [][(i \in errors' /\ i \notin errors) =>
            /\ pc' = "loop"
            /\ i' = i + 1
            /\ diff_content' = diff_content
            /\ blocks' = blocks
            /\ result' = result]_vars
    /\ [](pc # "raised")
    /\ []((GetDiffReturned /\ errors # {}) => i = Len(diff_index) + 1)

\* The first diff_item raised and the second one was rendered.
C2_Witness ==
    /\ GetDiffReturned
    /\ 1 \in errors
    /\ BlocksOf(2) # {}
    /\ result = Some(blocks[1].text)

(* C3: without a common ancestor get_diff returns None without raising,    *)
(* and nothing is enumerated, decoded or rendered.                         *)
C3_NoCommonAncestorYieldsNone ==
    (revisions_ok /\ merge_bases = <<>>) =>
      /\ pc \in {"main", "returned", "done"}
      /\ pc = "done" => exit_code = Some(0)
      /\ GetDiffReturned => result = None /\ "no_common_ancestor" \in log
      /\ Visited = {}
      /\ reads = {} /\ compared = {} /\ errors = {}
      /\ blocks = <<>> /\ diff_content = <<>>

\* No common ancestor although the two trees differ.
C3_Witness ==
    /\ revisions_ok
    /\ merge_bases = <<>>
    /\ pc = "returned"
    /\ diff_index # <<>>

(* C4: the destination is opened only when asked for and the document is   *)
(* non-empty, and then holds the document; with an empty document and a    *)
(* destination, main reports that no file was produced and calls no review.*)
C4_NoFileForEmptyDocument ==
    /\ file # None =>
         /\ output_file # None
         /\ diff_content # <<>>
         /\ file = Some(diff_content)
    /\ (pc = "done" /\ output_file # None /\ diff_content = <<>>) =>
         /\ file = None
         /\ "no_output_file" \in log
         /\ reviewed = None

\* A destination was given, every diff_item was skipped, main is done.
C4_Witness ==
    /\ pc = "done"
    /\ output_file # None
    /\ merge_bases # <<>>
    /\ diff_index # <<>>
    /\ Visited = 1..Len(diff_index)
    /\ diff_content = <<>>
    /\ file = None

(* C5 (as claimed): a modified or renamed diff_item with a binary side is  *)
(* not line-compared, and its block is the header plus a binary notice:    *)
(* no '+'/'-' lines and not the bare header.                               *)
C5_BinarySideNotCompared ==
    \A m \in 1..Len(blocks) :
      LET it == diff_index[blocks[m].item]
      IN  (/\ ~it.new_file /\ ~it.deleted_file
           /\ DenylistedBlob(it.a_blob) \/ DenylistedBlob(it.b_blob))
          => /\ blocks[m].item \notin compared
             /\ ~HasDiffMarkers(blocks[m].lines)
             /\ blocks[m].text # HdrModified \o blocks[m].path \o NL \o NL \o NL

---------------------------------------------------------------------------
\* The text the claimed order of decoders gives: UTF-8 if the bytes are
\* valid UTF-8, else GBK if they are valid GBK, else one code point per byte.
ExpectedText(d) ==
    IF Utf8From(d, 1).ok THEN Utf8From(d, 1).text
    ELSE IF GbkFrom(d, 1).ok THEN GbkFrom(d, 1).text
    ELSE d

(* C6: decoding a present blob never raises and always yields a text: the  *)
(* notice for a denylisted path, else the UTF-8 reading of the bytes if    *)
(* there is one, else the GBK reading if there is one, else latin1.        *)
C6_DecodeNeverRaises ==
    /\ errors = {}
    /\ \A k \in Visited :
         (/\ diff_index[k].new_file
          /\ diff_index[k].b_blob # None
          /\ ~diff_index[k].b_blob[1].fault)
         => /\ BlocksOf(k) # {}
            /\ \A m \in BlocksOf(k) :
                 blocks[m].text =
                   HdrNew \o PathOf(k) \o NL
                   \o (IF DenylistedBlob(diff_index[k].b_blob)
                         THEN BinaryNotice(diff_index[k].b_blob[1].path)
                         ELSE ExpectedText(diff_index[k].b_blob[1].data))
                   \o NL \o NL

\* Bytes that are neither UTF-8 nor GBK were decoded by the fallback.
C6_Witness ==
    /\ GetDiffReturned
    /\ BlocksOf(1) # {}
    /\ ~DenylistedBlob(diff_index[1].b_blob)
    /\ ~Utf8From(diff_index[1].b_blob[1].data, 1).ok
    /\ ~GbkFrom(diff_index[1].b_blob[1].data, 1).ok
    /\ Len(diff_index[1].b_blob[1].data) = MaxBytes

(* C7: the data stream of a blob with a denylisted extension (in any case) *)
(* is never read, and an added diff_item with such a blob is rendered as   *)
(* the header plus the binary notice.                                      *)
C7_DenylistedBlobNeverRead ==
    \A k \in Visited :
      /\ DenylistedBlob(diff_index[k].a_blob) => <<k, "a">> \notin reads
      /\ DenylistedBlob(diff_index[k].b_blob) => <<k, "b">> \notin reads
      /\ (/\ diff_index[k].new_file
          /\ DenylistedBlob(diff_index[k].b_blob)
          /\ IsFirstOccurrence(k))
         => /\ k \notin errors
            /\ BlocksOf(k) # {}
            /\ \A m \in BlocksOf(k) :
                 blocks[m].text =
                   HdrNew \o PathOf(k) \o NL
                   \o BinaryNotice(diff_index[k].b_blob[1].path) \o NL \o NL

\* An added file with an upper-case denylisted extension whose data stream
\* would have raised was rendered.
C7_Witness ==
    \E k \in Visited :
      /\ diff_index[k].new_file
      /\ diff_index[k].b_blob # None
      /\ diff_index[k].b_blob[1].fault
      /\ diff_index[k].b_blob[1].path = PathPng
      /\ BlocksOf(k) # {}

RECURSIVE RStrip(_)
\* The line without its trailing whitespace (line terminator included).
RStrip(line) ==
    IF line # <<>> /\ line[Len(line)] \in Whitespace
      THEN RStrip(SubSeq(line, 1, Len(line) - 1))
      ELSE line

RECURSIVE MeaningfulLines(_)
\* The lines that count when space at the end of a line and blank lines
\* are ignored.
MeaningfulLines(lines) ==
    IF lines = <<>> THEN <<>>
    ELSE (IF RStrip(Head(lines)) = <<>> THEN <<>> ELSE <<RStrip(Head(lines))>>)
         \o MeaningfulLines(Tail(lines))

WhitespaceOnlyDifference(old, new) ==
    /\ old # new
    /\ MeaningfulLines(SplitLines(old)) = MeaningfulLines(SplitLines(new))

ReadableText(blob) ==
    blob # None /\ ~blob[1].fault /\ ~HasDenylistedExtension(blob[1].path)

(* C8 (as claimed): a modified diff_item whose two sides differ only in    *)
(* space at the end of lines or in blank lines has a modification block    *)
(* whose hunk is empty (no '+'/'-' lines).                                 *)
C8_WhitespaceOnlyHunkIsEmpty ==
    \A k \in Visited :
      (/\ ~diff_index[k].new_file /\ ~diff_index[k].deleted_file
       /\ ~diff_index[k].renamed_file
       /\ IsFirstOccurrence(k)
       /\ ReadableText(diff_index[k].a_blob)
       /\ ReadableText(diff_index[k].b_blob)
       /\ WhitespaceOnlyDifference(ExpectedText(diff_index[k].a_blob[1].data),
                                   ExpectedText(diff_index[k].b_blob[1].data)))
      => /\ BlocksOf(k) # {}
         /\ \A m \in BlocksOf(k) :
              /\ blocks[m].kind = "modified"
              /\ ~HasDiffMarkers(blocks[m].lines)

(* C9: the block of an added diff_item is the header naming the path, the  *)
(* whole decoded content (or the binary notice) and a blank line; no       *)
(* comparison is run for it and it holds no line of a diff.                *)
C9_AddedBlockIsFullContent ==
    \A k \in Visited :
      diff_index[k].new_file =>
        /\ k \notin compared
        /\ \A m \in BlocksOf(k) :
             /\ diff_index[k].b_blob # None
             /\ blocks[m].kind = "new"
             /\ blocks[m].lines = <<>>
             /\ blocks[m].text =
                  HdrNew \o PathOf(k) \o NL
                  \o DecodeBlob(diff_index[k].b_blob, encodings).value[1]
                  \o NL \o NL
        /\ (/\ IsFirstOccurrence(k)
            /\ diff_index[k].b_blob # None
            /\ ~diff_index[k].b_blob[1].fault)
           => BlocksOf(k) # {}

\* An added text file was rendered after another diff_item.
C9_Witness ==
    /\ GetDiffReturned
    /\ Len(blocks) = 2
    /\ diff_index[2].new_file
    /\ ReadableText(diff_index[2].b_blob)
    /\ BlocksOf(2) # {}

(* C10: a path is marked as processed as soon as its first diff_item is    *)
(* reached; if that diff_item emitted no block, no diff_item with the same *)
(* effective path emits one, and the document has no block for the path.   *)
C10_PathMarkedBeforeRendering ==
    \A j \in Visited :
      (PathOf(j) # <<>> /\ IsFirstOccurrence(j)) =>
        /\ PathOf(j) \in processed_files
        /\ BlocksOf(j) = {} =>
             \A m \in 1..Len(blocks) : blocks[m].path # PathOf(j)

\* The first diff_item of a path raised or had no blob, and a later
\* deletion of the same path was dropped.
C10_Witness ==
    /\ GetDiffReturned
    /\ Len(diff_index) = 2
    /\ PathOf(1) = PathOf(2)
    /\ PathOf(1) # <<>>
    /\ diff_index[1].new_file
    /\ diff_index[2].deleted_file
    /\ blocks = <<>>

====
